---- MODULE Spec2Model ----
(***************************************************************************)
(* Model of homework1/graph_search.py (GraphSearch, BreadthFirstSearch,    *)
(* DepthFirstSearch) and of the driver homework1/problem2.py.              *)
(*                                                                         *)
(* One behaviour is: a graph, a start node and an end node are fixed; an   *)
(* engine instance is constructed and find_paths(start, end) is run on it  *)
(* to completion (a returned list of paths, or a raised exception); then a *)
(* second fresh instance is constructed over the same graph and run with   *)
(* the same arguments, as main() does with its two searches.               *)
(***************************************************************************)
EXTENDS Integers, Sequences, FiniteSets, TLC

VARIABLES
    nbrs,            \* the graph: node |-> sequence of its neighbors, in the
                     \* order graph.neighbors(node) enumerates them
    start,           \* first argument of find_paths
    end,             \* second argument of find_paths
    strategy,        \* instance |-> "BFS" | "DFS" (the class instantiated)
    pc,              \* instance |-> position of its find_paths call
    expanded,        \* instance |-> self.__expanded
    node_ancestors,  \* instance |-> self.__node_ancestors (node |-> set)
    frontier,        \* instance |-> self.__queue / self.__stack, left to right
    result,          \* instance |-> the list returned by find_paths
    raised,          \* instance |-> the exception find_paths ended with
    expansions,      \* instance |-> the nodes __expand_node was called on, in order
    added            \* instance |-> the nodes _add_to_frontier was called on, in order

vars == <<nbrs, start, end, strategy, pc, expanded, node_ancestors, frontier,
          result, raised, expansions, added>>

\* Generic graphs are all simple undirected graphs on 1..MaxNodes nodes.
MaxNodes == 3

\* The two searches main() runs one after the other.
Inst == {1, 2}

Strategies == {"BFS", "DFS"}

Range(s) == {s[k] : k \in DOMAIN s}

Last(s) == s[Len(s)]

EmptyMap == [x \in {} |-> {}]

----------------------------------------------------------------------------
(* Graphs                                                                  *)

\* All enumeration orders of a set.
Perms(S) == {p \in [1..Cardinality(S) -> S] : Range(p) = S}

Adj(E, v) == {w \in UNION E : w # v /\ {v, w} \in E}

\* Every assignment of a neighbor enumeration order to the nodes V of the
\* graph with edge set E.
RECURSIVE NeighborOrders(_, _, _)
NeighborOrders(V, E, todo) ==
    IF todo = {} THEN {[x \in {} |-> <<>>]}
    ELSE LET v == CHOOSE x \in todo : TRUE
         IN  {(v :> p) @@ f : p \in Perms(Adj(E, v)),
                              f \in NeighborOrders(V, E, todo \ {v})}

\* Simple undirected graphs (no self-loops) on the nodes 0..n-1.
GraphsOn(n) ==
    LET V == 0..(n - 1)
    IN  UNION {NeighborOrders(V, E, V) :
                  E \in SUBSET {e \in SUBSET V : Cardinality(e) = 2}}

\* nx.Graph.add_edges_from: the adjacency of v lists the other endpoints of
\* its edges in the order the edges were added.
RECURSIVE NxNeighbors(_, _)
NxNeighbors(edges, v) ==
    IF edges = <<>> THEN <<>>
    ELSE LET e == Head(edges)
             rest == NxNeighbors(Tail(edges), v)
         IN  IF e[1] = v THEN <<e[2]>> \o rest
             ELSE IF e[2] = v THEN <<e[1]>> \o rest
             ELSE rest

NxGraph(V, edges) == [v \in V |-> NxNeighbors(edges, v)]

EdgeSet(edges) == {{edges[k][1], edges[k][2]} : k \in DOMAIN edges}

\* The maze of problem2.py.
MAZE_START_NODE == 0
MAZE_END_NODE == 17
MazeNodes == 0..24
MazeEdges ==
    << <<1, 0>>, <<0, 2>>, <<2, 3>>, <<2, 4>>, <<4, 5>>, <<5, 7>>, <<5, 6>>,
       <<4, 8>>, <<8, 9>>, <<8, 10>>, <<10, 12>>, <<10, 11>>, <<11, 13>>,
       <<11, 14>>, <<14, 15>>, <<14, 16>>, <<16, 17>>, <<16, 18>>, <<18, 19>>,
       <<18, 20>>, <<20, 21>>, <<20, 22>>, <<22, 23>>, <<22, 24>> >>
make_maze_graph == NxGraph(MazeNodes, MazeEdges)

\* The scenario graphs of the specification, under every neighbor order.
SquareNodes == 0..3
SquareEdges == << <<0, 1>>, <<1, 2>>, <<0, 3>>, <<3, 2>> >>
SquareGraphs == NeighborOrders(SquareNodes, EdgeSet(SquareEdges), SquareNodes)

ChainNodes == 0..4
ChainEdges == << <<0, 1>>, <<1, 2>>, <<2, 3>>, <<3, 4>> >>
ChainGraphs == NeighborOrders(ChainNodes, EdgeSet(ChainEdges), ChainNodes)

Graphs ==
    UNION {GraphsOn(n) : n \in 1..MaxNodes}
        \cup SquareGraphs \cup ChainGraphs \cup {make_maze_graph}

\* The maze is searched from its starting node, as main() does; the other
\* graphs from every node.
Starts(g) == IF g = make_maze_graph THEN {MAZE_START_NODE} ELSE DOMAIN g

Nodes == DOMAIN nbrs

Edge(g, a, b) == b \in Range(g[a])

----------------------------------------------------------------------------
(* The strategies                                                          *)

\* BreadthFirstSearch._add_to_frontier: deque.appendleft;
\* DepthFirstSearch._add_to_frontier: list.append.
add_to_frontier(strat, fr, node) ==
    IF strat = "BFS" THEN <<node>> \o fr ELSE Append(fr, node)

\* Variant of the generator that takes the leftmost element (popleft,
\* pop(0)).
expandable_next_left(strat, fr) == [node |-> Head(fr), rest |-> Tail(fr)]

\* _expandable_nodes: while the frontier is not empty, yield frontier.pop()
\* (deque.pop and list.pop both take the rightmost element).
expandable_next(strat, fr) ==
    [node |-> Last(fr), rest |-> SubSeq(fr, 1, Len(fr) - 1)]

----------------------------------------------------------------------------
(* The engine                                                              *)

\* Variants of __update_ancestor: with its arguments exchanged, and adding
\* the parent to the set the child already has.
update_ancestor_swapped(anc, parent, child) ==
    IF parent \notin DOMAIN anc
    THEN [anc |-> (parent :> {child}) @@ anc, raised |-> "none"]
    ELSE [anc |-> anc, raised |-> "AttributeError"]

update_ancestor_add(anc, parent, child) ==
    IF child \notin DOMAIN anc
    THEN [anc |-> (child :> {parent}) @@ anc, raised |-> "none"]
    ELSE [anc |-> [anc EXCEPT ![child] = @ \cup {parent}], raised |-> "none"]

\* __update_ancestor.  `ancestors := self.__node_ancestors.get(child) is None`
\* binds ancestors to the truth value of the comparison.  When the child has
\* no entry, the branch rebinds it to a new set, stores the set and adds the
\* parent.  When the child has an entry, ancestors is False and
\* `ancestors.add(parent)` raises AttributeError; the map is unchanged.
update_ancestor(anc, parent, child) ==
    LET ancestors == child \notin DOMAIN anc
    IN  IF ancestors
        THEN [anc |-> (child :> {parent}) @@ anc, raised |-> "none"]
        ELSE [anc |-> anc, raised |-> "AttributeError"]

\* __expand_node, line 59: `if neighbor in self.__expanded` (and the variant
\* that never skips a neighbor).
is_expanded_never(exp, neighbor) == FALSE

is_expanded(exp, neighbor) == neighbor \in exp

\* __expand_node, line 69: self.__expanded.add(node) (and the variant that
\* leaves the node unmarked).
mark_expanded_skipped(exp, node) == exp

mark_expanded(exp, node) == exp \cup {node}

\* The neighbor loop of __expand_node from its k-th neighbor on, then
\* self.__expanded.add(node).  s is the session [expanded, node_ancestors,
\* frontier, added, raised]; an exception leaves the loop with the state as
\* it is.
\* (The session after a neighbor is bound as a value, so that it is computed
\* once.)
RECURSIVE expand_from(_, _, _, _, _)
expand_from(strat, s, node, ns, k) ==
    IF k > Len(ns) THEN [s EXCEPT !.expanded = mark_expanded(@, node)]
    ELSE IF is_expanded(s.expanded, ns[k])
        THEN expand_from(strat, s, node, ns, k + 1)
    ELSE LET fr == add_to_frontier(strat, s.frontier, ns[k])
             u == update_ancestor(s.node_ancestors, node, ns[k])
         IN  IF u.raised # "none"
             THEN [s EXCEPT !.frontier = fr, !.added = Append(@, ns[k]),
                            !.raised = u.raised]
             ELSE CHOOSE r \in
                      {expand_from(strat, t, node, ns, k + 1) :
                          t \in {[s EXCEPT !.frontier = fr,
                                           !.added = Append(@, ns[k]),
                                           !.node_ancestors = u.anc]}} :
                      TRUE

expand_node(strat, g, s, node) == expand_from(strat, s, node, g[node], 1)

\* `for parent in parents`: the iteration order of a set of small integers,
\* which is ascending.
RECURSIVE SetToSeq(_)
SetToSeq(S) ==
    IF S = {} THEN <<>>
    ELSE LET m == CHOOSE x \in S : \A y \in S : x <= y
         IN  <<m>> \o SetToSeq(S \ {m})

\* _build_paths, lines 93-95: a node without recorded ancestors "must be a
\* starting node"; the result is the one path holding the _start argument
\* (the variant returns the node the recursion stopped at).
base_case_end(st, e) == << <<e>> >>

base_case(st, e) == << <<st>> >>

\* Lines 102-105 for one parent, then the paths of the later parents:
\* the end node is appended to every partial path, and the paths extend the
\* list.  A RecursionError below propagates.
extend_paths(partial, more, e) ==
    IF ~partial.ok \/ ~more.ok THEN [ok |-> FALSE, paths |-> <<>>]
    ELSE [ok |-> TRUE,
          paths |-> [k \in DOMAIN partial.paths |-> Append(partial.paths[k], e)]
                        \o more.paths]

\* __build_paths / _build_paths.  Every call of __build_paths wraps a new
\* _build_paths in a new lru_cache, so no call is ever answered from a cache.
\* A recursion deeper than the number of nodes has come back to a node and
\* never reaches the base case: the call ends in RecursionError (ok = FALSE).
RECURSIVE build_paths(_, _, _, _, _)
RECURSIVE build_over(_, _, _, _, _, _)
build_paths(anc, limit, depth, st, e) ==
    IF depth > limit THEN [ok |-> FALSE, paths |-> <<>>]
    ELSE IF e \notin DOMAIN anc THEN [ok |-> TRUE, paths |-> base_case(st, e)]
    ELSE build_over(anc, limit, depth, st, e, SetToSeq(anc[e]))

\* The loop `for parent in parents` of _build_paths.  (The two recursive
\* results and the parent are bound as values, so that each is computed
\* once.)
build_over(anc, limit, depth, st, e, parents) ==
    IF parents = <<>> THEN [ok |-> TRUE, paths |-> <<>>]
    ELSE CHOOSE r \in
             {extend_paths(partial, more, e) :
                 partial \in {build_paths(anc, limit, depth + 1, st, parent) :
                                 parent \in {Head(parents)}},
                 more \in {build_over(anc, limit, depth, st, e, Tail(parents))}} :
             TRUE

----------------------------------------------------------------------------
(* Actions                                                                 *)

Init ==
    /\ nbrs \in Graphs
    /\ start \in Starts(nbrs)
    /\ end \in DOMAIN nbrs
    /\ strategy = [i \in Inst |-> "BFS"]
    /\ pc = [i \in Inst |-> "none"]
    /\ expanded = [i \in Inst |-> {}]
    /\ node_ancestors = [i \in Inst |-> EmptyMap]
    /\ frontier = [i \in Inst |-> <<>>]
    /\ result = [i \in Inst |-> <<>>]
    /\ raised = [i \in Inst |-> "none"]
    /\ expansions = [i \in Inst |-> <<>>]
    /\ added = [i \in Inst |-> <<>>]

Finished(i) == pc[i] \in {"done", "error"}

\* Variant of the constructor: the expanded set is one object shared by the
\* instances (a class attribute) instead of a new set per instance.
ConstructShared(i) ==
    /\ pc[i] = "none"
    /\ \A j \in Inst : j < i => Finished(j)
    /\ \E s \in Strategies : strategy' = [strategy EXCEPT ![i] = s]
    /\ expanded' = [expanded EXCEPT ![i] = IF i = 1 THEN {} ELSE expanded[i - 1]]
    /\ node_ancestors' = [node_ancestors EXCEPT ![i] = EmptyMap]
    /\ frontier' = [frontier EXCEPT ![i] = <<>>]
    /\ pc' = [pc EXCEPT ![i] = "ready"]
    /\ UNCHANGED <<nbrs, start, end, result, raised, expansions, added>>

\* GraphSearch.__init__ and the subclass __init__: a new instance of either
\* class, with its own empty expanded set, ancestor map and frontier.
Construct(i) ==
    /\ pc[i] = "none"
    /\ \A j \in Inst : j < i => Finished(j)
    /\ \E s \in Strategies : strategy' = [strategy EXCEPT ![i] = s]
    /\ expanded' = [expanded EXCEPT ![i] = {}]
    /\ node_ancestors' = [node_ancestors EXCEPT ![i] = EmptyMap]
    /\ frontier' = [frontier EXCEPT ![i] = <<>>]
    /\ pc' = [pc EXCEPT ![i] = "ready"]
    /\ UNCHANGED <<nbrs, start, end, result, raised, expansions, added>>

\* find_paths, line 159: the starting node enters the frontier.
FindPathsCall(i) ==
    /\ pc[i] = "ready"
    /\ frontier' = [frontier EXCEPT ![i] = add_to_frontier(strategy[i], @, start)]
    /\ added' = [added EXCEPT ![i] = Append(@, start)]
    /\ pc' = [pc EXCEPT ![i] = "loop"]
    /\ UNCHANGED <<nbrs, start, end, strategy, expanded, node_ancestors,
                   result, raised, expansions>>

\* find_paths, line 165: `if end in self.__expanded` (and the variant that
\* never breaks).
end_expanded_never(exp, e) == FALSE

end_expanded(exp, e) == e \in exp

\* One iteration of the loop of find_paths: the generator yields the next
\* node, __expand_node runs on it, and the loop breaks when end is expanded.
LoopIteration(i) ==
    /\ pc[i] = "loop"
    /\ frontier[i] # <<>>
    /\ LET nx == expandable_next(strategy[i], frontier[i])
           s == expand_node(strategy[i], nbrs,
                            [expanded |-> expanded[i],
                             node_ancestors |-> node_ancestors[i],
                             frontier |-> nx.rest,
                             added |-> added[i],
                             raised |-> "none"],
                            nx.node)
       IN  /\ expanded' = [expanded EXCEPT ![i] = s.expanded]
           /\ node_ancestors' = [node_ancestors EXCEPT ![i] = s.node_ancestors]
           /\ frontier' = [frontier EXCEPT ![i] = s.frontier]
           /\ added' = [added EXCEPT ![i] = s.added]
           /\ raised' = [raised EXCEPT ![i] = s.raised]
           /\ expansions' = [expansions EXCEPT ![i] = Append(@, nx.node)]
           /\ pc' = [pc EXCEPT ![i] =
                        IF s.raised # "none" THEN "error"
                        ELSE IF end_expanded(s.expanded, end) THEN "build"
                        ELSE "loop"]
    /\ UNCHANGED <<nbrs, start, end, strategy, result>>

\* The generator finds the frontier empty and the loop ends.
LoopExhausted(i) ==
    /\ pc[i] = "loop"
    /\ frontier[i] = <<>>
    /\ pc' = [pc EXCEPT ![i] = "build"]
    /\ UNCHANGED <<nbrs, start, end, strategy, expanded, node_ancestors,
                   frontier, result, raised, expansions, added>>

\* find_paths, line 168: return self.__build_paths(start, end).
Return(i) ==
    /\ pc[i] = "build"
    /\ LET r == build_paths(node_ancestors[i], Cardinality(Nodes), 1, start, end)
       IN  /\ result' = [result EXCEPT ![i] = r.paths]
           /\ raised' = [raised EXCEPT ![i] =
                            IF r.ok THEN "none" ELSE "RecursionError"]
           /\ pc' = [pc EXCEPT ![i] = IF r.ok THEN "done" ELSE "error"]
    /\ UNCHANGED <<nbrs, start, end, strategy, expanded, node_ancestors,
                   frontier, expansions, added>>

Next ==
    \E i \in Inst :
        \/ Construct(i)
        \/ FindPathsCall(i)
        \/ LoopIteration(i)
        \/ LoopExhausted(i)
        \/ Return(i)

Spec == Init /\ [][Next]_vars

\* One search alone: the first instance is constructed and its find_paths
\* call runs.  The interpreter runs the call to its end: a step that can be
\* taken is taken.
NextOne ==
    \/ Construct(1)
    \/ FindPathsCall(1)
    \/ LoopIteration(1)
    \/ LoopExhausted(1)
    \/ Return(1)

FairSpec == Init /\ [][NextOne]_vars /\ WF_vars(NextOne)

----------------------------------------------------------------------------
(* Graph notions the properties are stated with                            *)

EdgesOf(g) == UNION {{{a, b} : b \in Range(g[a])} : a \in DOMAIN g}

\* The nodes reachable from the set S.
RECURSIVE Reach(_, _)
Reach(g, S) ==
    LET T == S \cup {w \in DOMAIN g : \E v \in S : Edge(g, v, w)}
    IN  IF T = S THEN S ELSE Reach(g, T)

Reachable(g, a, b) == b \in Reach(g, {a})

\* Number of edges of a shortest walk from a node of S to t, d steps after
\* the search left its origin (t is reachable).
RECURSIVE DistFrom(_, _, _, _)
DistFrom(g, S, t, d) ==
    IF t \in S THEN d
    ELSE DistFrom(g, S \cup {w \in DOMAIN g : \E v \in S : Edge(g, v, w)}, t, d + 1)

Dist(g, a, b) == DistFrom(g, {a}, b, 0)

\* p is a walk of g from a to b that repeats no node.
ValidWalk(g, p, a, b) ==
    /\ Len(p) >= 1
    /\ p[1] = a
    /\ p[Len(p)] = b
    /\ \A k \in 1..(Len(p) - 1) : Edge(g, p[k], p[k + 1])
    /\ \A j, k \in 1..Len(p) : j # k => p[j] # p[k]

IsTree(g) ==
    /\ Reach(g, {CHOOSE v \in DOMAIN g : TRUE}) = DOMAIN g
    /\ Cardinality(EdgesOf(g)) = Cardinality(DOMAIN g) - 1

IsSquare(g) == DOMAIN g = SquareNodes /\ EdgesOf(g) = EdgeSet(SquareEdges)

IsChain(g) == DOMAIN g = ChainNodes /\ EdgesOf(g) = EdgeSet(ChainEdges)

----------------------------------------------------------------------------
(* Properties                                                              *)

\* C1: find_paths never ends in an exception: every call of
\* __update_ancestor completes normally and the call returns a list.
C1_NeverRaises == \A i \in Inst : pc[i] # "error" /\ raised[i] = "none"

\* C2: when end is reachable from start, every path find_paths returns is a
\* walk of the graph from start to end that repeats no node.
C2_ReturnedPathsAreValidWalks ==
    \A i \in Inst :
        (pc[i] = "done" /\ Reachable(nbrs, start, end)) =>
            \A k \in DOMAIN result[i] : ValidWalk(nbrs, result[i][k], start, end)

C2_Witness ==
    \E i \in Inst :
        /\ pc[i] = "done"
        /\ strategy[i] = "DFS"
        /\ Reachable(nbrs, start, end)
        /\ result[i] # <<>>
        /\ Len(result[i][1]) >= 3

\* C3: when end is reachable from start, every path BreadthFirstSearch
\* returns has as many edges as a shortest walk from start to end.
C3_BfsPathsAreShortest ==
    \A i \in Inst :
        (pc[i] = "done" /\ strategy[i] = "BFS" /\ Reachable(nbrs, start, end)) =>
            \A k \in DOMAIN result[i] :
                Len(result[i][k]) - 1 = Dist(nbrs, start, end)

C3_Witness ==
    \E i \in Inst :
        /\ pc[i] = "done"
        /\ strategy[i] = "BFS"
        /\ Reachable(nbrs, start, end)
        /\ Dist(nbrs, start, end) >= 1
        /\ result[i] # <<>>
        /\ Cardinality(EdgesOf(nbrs)) >= Cardinality(Nodes)

\* C4: on the square 0-1-2-3-0, find_paths(0, 2) of BreadthFirstSearch
\* returns exactly the two paths [0,1,2] and [0,3,2], whatever the neighbor
\* order.
C4_SquareBfsReturnsBothPaths ==
    \A i \in Inst :
        (IsSquare(nbrs) /\ start = 0 /\ end = 2 /\ strategy[i] = "BFS"
            /\ Finished(i)) =>
            /\ pc[i] = "done"
            /\ Len(result[i]) = 2
            /\ Range(result[i]) = {<<0, 1, 2>>, <<0, 3, 2>>}

C7_TreeHasOnePath ==
    IsTree(nbrs) =>
        /\ \A i \in Inst :
              Finished(i) =>
                  /\ pc[i] = "done"
                  /\ Len(result[i]) = 1
                  /\ ValidWalk(nbrs, result[i][1], start, end)
                  /\ (IsChain(nbrs) /\ start = 0 /\ end = 4) =>
                        result[i] = << <<0, 1, 2, 3, 4>> >>
        /\ \A i, j \in Inst :
              (Finished(i) /\ Finished(j)) => result[i] = result[j]

C7_Witness ==
    /\ nbrs = make_maze_graph
    /\ start = MAZE_START_NODE
    /\ end = MAZE_END_NODE
    /\ strategy[1] = "BFS"
    /\ strategy[2] = "DFS"
    /\ pc[1] = "done"
    /\ pc[2] = "done"
    /\ result[2] = << <<0, 2, 4, 8, 10, 11, 14, 16, 17>> >>

C9_SquareDfsReturnsValidPath ==
    \A i \in Inst :
        (IsSquare(nbrs) /\ start = 0 /\ end = 2 /\ strategy[i] = "DFS"
            /\ Finished(i)) =>
            /\ pc[i] = "done"
            /\ Len(result[i]) >= 1
            /\ \A k \in DOMAIN result[i] : ValidWalk(nbrs, result[i][k], 0, 2)

\* C10: two runs of find_paths on fresh instances of the same strategy over
\* the same graph end in the same outcome with the same set of paths.
C10_FreshInstancesAgree ==
    \A i, j \in Inst :
        (strategy[i] = strategy[j] /\ Finished(i) /\ Finished(j)) =>
            /\ pc[i] = pc[j]
            /\ raised[i] = raised[j]
            /\ Range(result[i]) = Range(result[j])
            /\ expanded[i] = expanded[j]
            /\ node_ancestors[i] = node_ancestors[j]

C10_Witness ==
    /\ strategy[1] = strategy[2]
    /\ pc[1] = "done"
    /\ pc[2] = "done"
    /\ Len(expansions[2]) >= 3
    /\ result[2] # <<>>

\* The nodes expanded before the k-th expansion of instance i: the expanded
\* set at the moment that expansion starts.
ExpandedBefore(i, k) == {expansions[i][j] : j \in 1..(k - 1)}

\* C11: expanding N records N in the ancestor set of every neighbor M that
\* is not expanded at that moment, whether or not M already had ancestors:
\* after each expansion, ancestors[M] holds N for each such neighbor M.
C11_ExpansionRecordsAncestor ==
    \A i \in Inst : \A k \in DOMAIN expansions[i] :
        LET N == expansions[i][k]
        IN  \A M \in Range(nbrs[N]) \ ExpandedBefore(i, k) :
                /\ M \in DOMAIN node_ancestors[i]
                /\ N \in node_ancestors[i][M]

C13_StopsWhenEndExpanded ==
    [][\A i \in Inst :
           end \in expanded[i] =>
               /\ pc[i] # "loop"
               /\ expanded'[i] = expanded[i]
               /\ node_ancestors'[i] = node_ancestors[i]
               /\ frontier'[i] = frontier[i]
               /\ expansions'[i] = expansions[i]
               /\ added'[i] = added[i]]_vars

\* A call has returned after expanding end while nodes were still waiting in
\* the frontier.
C13_Witness ==
    \E i \in Inst :
        /\ pc[i] = "done"
        /\ end \in expanded[i]
        /\ Last(expansions[i]) = end
        /\ frontier[i] # <<>>

\* s is an initial segment of t.
IsPrefix(s, t) == Len(s) <= Len(t) /\ SubSeq(t, 1, Len(s)) = s

\* C14: the frontier of BreadthFirstSearch is first-in-first-out: the nodes
\* are drawn in exactly the order in which _add_to_frontier received them,
\* the frontier holds the nodes added and not yet drawn, and the expanded
\* nodes follow one another in non-decreasing edge distance from start.
C14_BfsFrontierIsFifo ==
    \A i \in Inst :
        strategy[i] = "BFS" =>
            /\ IsPrefix(expansions[i], added[i])
            /\ \A k \in DOMAIN frontier[i] :
                   frontier[i][k] = added[i][Len(added[i]) - k + 1]
            /\ Len(frontier[i]) + Len(expansions[i]) = Len(added[i])
            /\ \A k \in 1..(Len(expansions[i]) - 1) :
                   Dist(nbrs, start, expansions[i][k])
                       <= Dist(nbrs, start, expansions[i][k + 1])

\* A breadth-first call has returned after drawing at least four nodes, the
\* last of them farther from start than the second, with two nodes waiting
\* in the frontier at some moment (the first expansion added two).
C14_Witness ==
    \E i \in Inst :
        /\ strategy[i] = "BFS"
        /\ pc[i] = "done"
        /\ Len(expansions[i]) >= 4
        /\ Len(nbrs[start]) >= 2
        /\ Dist(nbrs, start, expansions[i][2]) < Dist(nbrs, start, Last(expansions[i]))

\* The positions of added[i] whose node has not been drawn yet: the nodes
\* still in the frontier, by the moment they were added.
Waiting(i) == {k \in DOMAIN added[i] : added[i][k] \notin Range(expansions[i])}

\* C15: the frontier of DepthFirstSearch is last-in-first-out: whenever a
\* node is drawn, it is the most recently added of the nodes still in the
\* frontier.
C15_DfsFrontierIsLifo ==
    [][\A i \in Inst :
           (strategy[i] = "DFS" /\ Len(expansions'[i]) = Len(expansions[i]) + 1) =>
               /\ Waiting(i) # {}
               /\ \A k \in Waiting(i) :
                      (\A m \in Waiting(i) : m <= k) =>
                          Last(expansions'[i]) = added[i][k]
               /\ Last(expansions'[i]) = Last(frontier[i])]_vars

\* A depth-first call has returned in which a node added by one expansion
\* was drawn right after it, ahead of a node that had been added earlier and
\* was still waiting.
C15_Witness ==
    \E i \in Inst :
        /\ strategy[i] = "DFS"
        /\ pc[i] = "done"
        /\ \E k \in 2..(Len(expansions[i]) - 1) :
               /\ node_ancestors[i][expansions[i][k + 1]] = {expansions[i][k]}
               /\ \E m \in DOMAIN node_ancestors[i] :
                      /\ m \notin {expansions[i][j] : j \in 1..(k + 1)}
                      /\ node_ancestors[i][m] \subseteq ExpandedBefore(i, k)

\* C16: the loop of find_paths consumes the frontier as it grows: a call
\* ends only with end expanded or with every node that was ever added to
\* the frontier drawn and expanded and the frontier empty; when end is not
\* reachable from start, the expanded set is then exactly the set of nodes
\* reachable from start.
C16_InsertedNodesAreExpanded ==
    \A i \in Inst :
        Finished(i) =>
            \/ end \in expanded[i]
            \/ /\ frontier[i] = <<>>
               /\ Range(added[i]) \subseteq expanded[i]
               /\ ~Reachable(nbrs, start, end) => expanded[i] = Reach(nbrs, {start})

\* C17: every key of the ancestor map is a node that has been passed to
\* _add_to_frontier, and every node in its ancestor set is a neighbor of the
\* key in the graph and a node whose expansion has run.
C17_AncestorsAreExpandedNeighbors ==
    \A i \in Inst : \A child \in DOMAIN node_ancestors[i] :
        /\ child \in Range(added[i])
        /\ \A parent \in node_ancestors[i][child] :
               /\ Edge(nbrs, parent, child)
               /\ parent \in Range(expansions[i])

\* A call has returned with ancestors recorded by at least two different
\* expansions.
C17_Witness ==
    \E i \in Inst :
        /\ pc[i] = "done"
        /\ \E m, n \in DOMAIN node_ancestors[i] :
               node_ancestors[i][m] # node_ancestors[i][n]

TimesAdded(s, n) == Cardinality({k \in DOMAIN s : s[k] = n})

\* C20: a node that is in the expanded set keeps its entry in the ancestor
\* map (present or absent, and its value) through every later step, is
\* never passed to _add_to_frontier again, and its membership in the
\* frontier does not change.
C20_ExpandedNodesAreLeftAlone ==
    [][\A i \in Inst : \A n \in expanded[i] :
           /\ n \in expanded'[i]
           /\ (n \in DOMAIN node_ancestors'[i]) = (n \in DOMAIN node_ancestors[i])
           /\ n \in DOMAIN node_ancestors[i] =>
                  node_ancestors'[i][n] = node_ancestors[i][n]
           /\ TimesAdded(added'[i], n) = TimesAdded(added[i], n)
           /\ (n \in Range(frontier'[i])) = (n \in Range(frontier[i]))]_vars

\* An expansion has completed that met a neighbor which was already
\* expanded and had a recorded ancestor.
C20_Witness ==
    \E i \in Inst :
        /\ pc[i] # "error"
        /\ Len(expansions[i]) >= 3
        /\ Last(expansions[i]) \in expanded[i]
        /\ \E n \in Range(nbrs[Last(expansions[i])]) :
               /\ n \in ExpandedBefore(i, Len(expansions[i]))
               /\ n \in DOMAIN node_ancestors[i]

====
